---- MODULE Spec2Model ----
(***************************************************************************)
(* Model of the authentication core of the legal-practice SaaS:            *)
(*   - RegistrationKeyService (generateKey, revokeKey,                     *)
(*     validateAndConsumeKey),                                             *)
(*   - AuthService (generateTokens, verifyRefreshToken, refreshTokens,     *)
(*     loginUser, registerUser).                                           *)
(* Every `await` on the database is one step of the calling request, so    *)
(* requests interleave exactly where the event loop lets them.  The        *)
(* database module (../config/database) is not part of the sources; its    *)
(* primitives are modelled as plain single-statement reads and writes.     *)
(***************************************************************************)
EXTENDS Integers, Sequences, FiniteSets, TLC

\* ------------------------------------------------------------------ bounds
NumCallers == 2     \* concurrent requests in flight
MaxKeys    == 1     \* registration keys ever generated
MaxUses    == 2     \* largest usesAllowed asked of generateKey
MaxTime    == 1     \* last value of the clock
MaxCalls   == 2     \* requests started in one behaviour of the whole service
MaxKeyCalls == 3    \* requests started in one behaviour of the key service alone
MaxAuthCalls == 3   \* requests started in one behaviour of login and refresh
MaxMounts    == 3                   \* times the page is opened

Callers == 1..NumCallers

\* ------------------------------------------------------------ value spaces
TenantIds    == {"T1", "T2", "T3"}  \* tenant ids a caller may name
tenants      == {"T1", "T2"}        \* rows of the tenants table
KeyTiers     == {"SIMPLES", "GERENCIAL"}
Emails       == {"a@x.com", "b@x.com"}
NoExpiry     == -1                  \* expiresAt: null
Undefined    == -1                  \* usesAllowed left out of the request
PlainKeys    == 1..MaxKeys          \* crypto.randomBytes(32): a fresh value per key
BadPlainKey  == 0                   \* a plaintext that was never generated
RegPassword  == "pw1"               \* the password and name a registration gives
RegName      == "n"
RefreshTtl   == 604800              \* '7d', and setDate(getDate() + 7): seconds
Passwords    == {"pw1", "bad"}      \* passwords a login may give
NoDate       == -1                  \* lastLogin: null

\* Error messages thrown by validateAndConsumeKey (accents dropped).
ErrNotFound  == "Chave de registro invalida"
ErrRevoked   == "Chave de registro foi revogada"
ErrExpired   == "Chave de registro expirada"
ErrExhausted == "Chave de registro esgotou os usos permitidos"
ErrTenant    == "Chave de registro nao pertence ao tenant especificado"
\* Error thrown by generateKey (the catch wraps the message).
ErrGenerateKey == "Failed to generate registration key: tenantId e obrigatorio para gerar chave de registro"
BlankTenantIds == {"", " "}         \* tenant ids that are empty or whitespace
\* Error messages thrown by registerUser.
ErrRegKey     == "Invalid or expired registration key"
ErrRegNoTenant == "Invalid registration key - missing tenant association"
ErrUserExists == "User already exists with this email"
ErrTenantNotFound == "Associated tenant not found"
\* Error messages thrown by verifyRefreshToken, refreshTokens and loginUser.
ErrRefreshToken == "Invalid or expired refresh token"
ErrUserInactive == "User not found or inactive"
ErrCredentials  == "Invalid credentials"
ErrDeactivated  == "Account is deactivated"
Ok == "ok"

VARIABLES
  keys,       \* registration_keys table: sequence of rows, id = position
  users,      \* users table: sequence of rows, id = position
  tokenRows,  \* refresh_tokens table: sequence of rows, id = position
  now,        \* the clock (new Date())
  procs,      \* per request in flight: operation, position (pc), arguments, locals
  outcome,    \* what the step just taken returned or threw, to whom (none: NoOutcome)
  started,    \* history: number of requests started
  consumed,   \* history: per key id, validateAndConsumeKey calls that returned
  mintedBy,   \* history: per user id, the id of the key its registration matched
  issued,     \* history: refresh tokens handed to callers, and by which operation
  spent,      \* history: refresh tokens a refreshTokens call has succeeded with
  asked,      \* history: per key id, the usesAllowed its request gave
  admins,     \* admins table: sequence of rows (ids apart from the users')
  http,       \* the request a middleware is handed, the middleware run, its answer
  client      \* the browser: AuthProvider's state, localStorage, apiService's token

vars == <<keys, users, tokenRows, now, procs, outcome, started, consumed, mintedBy, issued, spent, asked, admins, http,
          client>>

\* ---------------------------------------------------------------- bcrypt
\* bcrypt.hash / bcrypt.compare on a registration key (64 hex characters):
\* the hash is not the plaintext, and compare succeeds on the hashed value only.
bcryptHash(plain) == <<"bcrypt", plain>>

bcryptCompare(plain, hash) == hash = bcryptHash(plain)

\* ---------------------------------------------------------------- rows
NoToken == [userId |-> 0, email |-> "", name |-> "", role |-> "", tenantId |-> "",
            accountType |-> "", iat |-> 0, exp |-> 0, secret |-> "none"]

NoKey == [id |-> 0, keyHash |-> <<"none", 0>>, tenantId |-> "", accountType |-> "",
          usesAllowed |-> 0, usesLeft |-> 0, expiresAt |-> NoExpiry,
          revoked |-> FALSE, usedLogs |-> <<>>]

NoUser == [id |-> 0, lastLogin |-> NoDate, email |-> "", password |-> <<"none", 0>>,
           name |-> "", accountType |-> "", tenantId |-> "", isActive |-> FALSE,
           mustChangePassword |-> FALSE]

IdleProc == [op |-> "idle", pc |-> "idle", plainKey |-> BadPlainKey, tenantId |-> "",
             email |-> "", mk |-> NoKey, user |-> NoUser, afterRevoke |-> FALSE,
             token |-> NoToken, row |-> 0, wasSpent |-> FALSE, wasFresh |-> FALSE]

NoOutcome == [by |-> 0, op |-> "", result |-> ""]

\* AccountType (SIMPLES < COMPOSTA < GERENCIAL)
AccountTypes == {"SIMPLES", "COMPOSTA", "GERENCIAL"}

\* req.user is undefined: no identity attached.
NoIdentity == [present |-> FALSE, accountType |-> "", tenantId |-> ""]

\* useState<User | null>(null): no user.
NoClientUser == [present |-> FALSE, email |-> "", accountType |-> ""]

\* The browser before the page is opened.
NoClient == [user |-> NoClientUser, isLoading |-> TRUE, pc |-> "closed",
             accessToken |-> "", apiToken |-> "", check |-> "none", mounts |-> 0]

NoHttp == [req |-> [user |-> NoIdentity, params |-> [tenantId |-> ""]],
           mw |-> [name |-> "", types |-> {}],
           res |-> [kind |-> "none"]]

\* ------------------------------------------------------- database (keys)
\* database.createRegistrationKey(keyData)
createRegistrationKey(rows, keyData) ==
  Append(rows, [id |-> Len(rows) + 1] @@ keyData)

\* database.getAllRegistrationKeys()
getAllRegistrationKeys(rows) == rows

\* database.revokeRegistrationKey(keyId)
revokeRegistrationKey(rows, keyId) ==
  [i \in 1..Len(rows) |-> IF rows[i].id = keyId
                          THEN [rows[i] EXCEPT !.revoked = TRUE]
                          ELSE rows[i]]

\* database.updateRegistrationKey(id, {uses_left, used_logs}): sets the two
\* columns to the values given.
updateRegistrationKey(rows, keyId, usesLeft, usedLogs) ==
  [i \in 1..Len(rows) |-> IF rows[i].id = keyId
                          THEN [rows[i] EXCEPT !.usesLeft = usesLeft,
                                               !.usedLogs = usedLogs]
                          ELSE rows[i]]

\* ------------------------------------------ RegistrationKeyService helpers
\* The loop of validateAndConsumeKey: the first key whose hash matches.
RECURSIVE FirstMatch(_, _, _)
FirstMatch(rows, plainKey, i) ==
  IF i > Len(rows) THEN NoKey
  ELSE IF bcryptCompare(plainKey, rows[i].keyHash) THEN rows[i]
  ELSE FirstMatch(rows, plainKey, i + 1)

\* trim() on the tenant ids of the model.
Trim(s) == IF s \in {"", " "} THEN "" ELSE s

\* generateKey's test of the tenantId without the trim.
TenantIdMissingNoTrim(tenantId) == tenantId = ""

\* `!request.tenantId || request.tenantId.trim() === ''`
TenantIdMissing(tenantId) == tenantId = "" \/ Trim(tenantId) = ""

\* KeyData keeping the key itself, unhashed, in the hash column.
KeyDataPlainStored(plain, tenantId, accountType, usesAllowed, expiresAt) ==
  [keyHash |-> <<"plain", plain>>,
   tenantId |-> tenantId,
   accountType |-> accountType,
   usesAllowed |-> IF usesAllowed = Undefined \/ usesAllowed = 0 THEN 1 ELSE usesAllowed,
   usesLeft |-> IF usesAllowed = Undefined \/ usesAllowed = 0 THEN 1 ELSE usesAllowed,
   expiresAt |-> expiresAt,
   usedLogs |-> <<>>,
   revoked |-> FALSE]

\* generateKey's keyData
\* (`request.usesAllowed || 1`: undefined and 0 both give 1).
KeyData(plain, tenantId, accountType, usesAllowed, expiresAt) ==
  [keyHash |-> bcryptHash(plain),
   tenantId |-> tenantId,
   accountType |-> accountType,
   usesAllowed |-> IF usesAllowed = Undefined \/ usesAllowed = 0 THEN 1 ELSE usesAllowed,
   usesLeft |-> IF usesAllowed = Undefined \/ usesAllowed = 0 THEN 1 ELSE usesAllowed,
   expiresAt |-> expiresAt,
   usedLogs |-> <<>>,
   revoked |-> FALSE]

\* KeyCheck with the tenant comparison left out.
KeyCheckNoTenant(matchingKey, tenantId, date) ==
  IF matchingKey.id = 0 THEN ErrNotFound
  ELSE IF matchingKey.revoked THEN ErrRevoked
  ELSE IF matchingKey.expiresAt # NoExpiry /\ date > matchingKey.expiresAt THEN ErrExpired
  ELSE IF matchingKey.usesLeft <= 0 THEN ErrExhausted
  ELSE Ok

\* KeyCheck with the revoked test left out.
KeyCheckNoRevoked(matchingKey, tenantId, date) ==
  IF matchingKey.id = 0 THEN ErrNotFound
  ELSE IF matchingKey.expiresAt # NoExpiry /\ date > matchingKey.expiresAt THEN ErrExpired
  ELSE IF matchingKey.usesLeft <= 0 THEN ErrExhausted
  ELSE IF matchingKey.tenantId # tenantId THEN ErrTenant
  ELSE Ok

\* KeyCheck testing the uses left before the expiry.
KeyCheckExhaustedFirst(matchingKey, tenantId, date) ==
  IF matchingKey.id = 0 THEN ErrNotFound
  ELSE IF matchingKey.revoked THEN ErrRevoked
  ELSE IF matchingKey.usesLeft <= 0 THEN ErrExhausted
  ELSE IF matchingKey.expiresAt # NoExpiry /\ date > matchingKey.expiresAt THEN ErrExpired
  ELSE IF matchingKey.tenantId # tenantId THEN ErrTenant
  ELSE Ok

\* The validations of validateAndConsumeKey on the matched key, in the
\* order of the code; Ok when all pass.
KeyCheck(matchingKey, tenantId, date) ==
  IF matchingKey.id = 0 THEN ErrNotFound
  ELSE IF matchingKey.revoked THEN ErrRevoked
  ELSE IF matchingKey.expiresAt # NoExpiry /\ date > matchingKey.expiresAt THEN ErrExpired
  ELSE IF matchingKey.usesLeft <= 0 THEN ErrExhausted
  ELSE IF matchingKey.tenantId # tenantId THEN ErrTenant
  ELSE Ok

\* The usage-log entry and the new log of validateAndConsumeKey.
ConsumeLogs(matchingKey, tenantId, date) ==
  Append(matchingKey.usedLogs, [usedAt |-> date, tenantId |-> tenantId, ip |-> "system"])

\* --------------------------------------------- database (users, tenants)
\* database.findValidRegistrationKeys(): the keys that are not revoked, not
\* expired and have uses left, as the database sees them at `date`.
findValidRegistrationKeys(rows, date) ==
  SelectSeq(rows, LAMBDA k : /\ ~k.revoked
                             /\ (k.expiresAt = NoExpiry \/ ~(date > k.expiresAt))
                             /\ k.usesLeft > 0)

\* database.findUserByEmail(email): the first row with that email, or none.
RECURSIVE FirstUser(_, _, _)
FirstUser(rows, email, i) ==
  IF i > Len(rows) THEN NoUser
  ELSE IF rows[i].email = email THEN rows[i]
  ELSE FirstUser(rows, email, i + 1)

findUserByEmail(rows, email) == FirstUser(rows, email, 1)

\* database.createUser(userData): the stored row, with its new id.
createUser(rows, userData) ==
  Append(rows, [id |-> Len(rows) + 1, lastLogin |-> NoDate] @@ userData)

\* database.updateUserLastLogin(userId)
updateUserLastLogin(rows, userId, date) ==
  [i \in 1..Len(rows) |-> IF rows[i].id = userId
                          THEN [rows[i] EXCEPT !.lastLogin = date]
                          ELSE rows[i]]

\* database.getAllTenants()
getAllTenants == tenants

\* database.updateRegistrationKeyUsage(id, {usesLeft, usedLogs})
updateRegistrationKeyUsage(rows, keyId, usesLeft, usedLogs) ==
  updateRegistrationKey(rows, keyId, usesLeft, usedLogs)

\* ------------------------------------------------- database (refresh tokens)
\* database.createRefreshToken({tokenHash, userId, expiresAt, isActive})
createRefreshToken(rows, tokenData) ==
  Append(rows, [id |-> Len(rows) + 1] @@ tokenData)

\* database.getActiveRefreshTokensForUser(userId)
getActiveRefreshTokensForUser(rows, userId) ==
  SelectSeq(rows, LAMBDA r : r.userId = userId /\ r.isActive)

\* database.revokeRefreshTokenById(id)
revokeRefreshTokenById(rows, id) ==
  [i \in 1..Len(rows) |-> IF rows[i].id = id
                          THEN [rows[i] EXCEPT !.isActive = FALSE]
                          ELSE rows[i]]

\* ------------------------------------------------------ AuthService helpers
\* `user.role ? {role} : {tenantId, accountType}`: admins carry a role.
HasRole(user) == "role" \in DOMAIN user

\* jwt.sign(payload, refreshTokenSecret, ...): the token is a function of the
\* payload and of the second it is issued in (iat); nothing else is in it.
jwtSign(user, date) ==
  [userId |-> user.id, email |-> user.email, name |-> user.name,
   role |-> IF HasRole(user) THEN user.role ELSE "",
   tenantId |-> IF HasRole(user) THEN "" ELSE user.tenantId,
   accountType |-> IF HasRole(user) THEN "" ELSE user.accountType,
   iat |-> date, exp |-> date + RefreshTtl, secret |-> "refresh"]

\* jwt.verify(token, refreshTokenSecret, ...): the signature and the expiry.
jwtVerify(token, date) == token.secret = "refresh" /\ date < token.exp

\* bcryptjs hashes the first 72 bytes of its input.  Of a JWT these are the
\* 36 characters of the header, the dot and 35 characters of the payload,
\* which encode {"userId":" and the start of the id: the rest of the token
\* (email, name, tier, iat, exp, signature) is not hashed.
Truncate72(token) == [userId |-> token.userId]

bcryptHashToken(token) == <<"bcrypt", Truncate72(token)>>

bcryptCompareToken(token, hash) == hash = bcryptHashToken(token)

\* The refresh-token row generateTokens stores.
TokenData(user, refreshToken, date) ==
  [tokenHash |-> bcryptHashToken(refreshToken), userId |-> user.id,
   expiresAt |-> date + RefreshTtl, isActive |-> TRUE]

\* The loops of verifyRefreshToken and refreshTokens over the user's active
\* rows: the first whose hash the token matches (id 0: none).
RECURSIVE FirstTokenRow(_, _, _)
FirstTokenRow(userTokens, token, i) ==
  IF i > Len(userTokens) THEN 0
  ELSE IF bcryptCompareToken(token, userTokens[i].tokenHash) THEN userTokens[i].id
  ELSE FirstTokenRow(userTokens, token, i + 1)

\* RegistrationKeyOf searching every stored key instead of the valid ones.
RegistrationKeyOfAnyKey(validKeys, key) == FirstMatch(keys, key, 1)

\* The loop of registerUser over the valid keys: the first whose hash matches.
RegistrationKeyOf(validKeys, key) == FirstMatch(validKeys, key, 1)

\* UserData taking the tier from a default instead of from the key.
UserDataDefaultTier(email, password, name, registrationKey, tenant) ==
  [email |-> email, password |-> bcryptHash(password), name |-> name,
   accountType |-> "SIMPLES", tenantId |-> tenant,
   isActive |-> TRUE, mustChangePassword |-> FALSE]

\* registerUser's userData, from the matched key and the tenant found.
UserData(email, password, name, registrationKey, tenant) ==
  [email |-> email, password |-> bcryptHash(password), name |-> name,
   accountType |-> registrationKey.accountType, tenantId |-> tenant,
   isActive |-> TRUE, mustChangePassword |-> FALSE]

\* FindTenant falling back to the first tenant when the key's is missing.
FindTenantOrFirst(all, registrationKey) ==
  IF registrationKey.tenantId \in all THEN {registrationKey.tenantId}
  ELSE {CHOOSE t \in all : TRUE}

\* tenants.find(t => t.id === registrationKey.tenantId): the set of hits
\* (empty when the tenant record is missing).
FindTenant(all, registrationKey) == {t \in all : t = registrationKey.tenantId}

\* The usage log registerUser writes.
RegisterLogs(registrationKey, user, date) ==
  Append(registrationKey.usedLogs, [userId |-> user.id, email |-> user.email, usedAt |-> date])

\* ------------------------------------------------------------------ Init
Init ==
  /\ keys = <<>>
  /\ users = <<>>
  /\ tokenRows = <<>>
  /\ now = 0
  /\ procs = [p \in Callers |-> IdleProc]
  /\ outcome = NoOutcome
  /\ started = 0
  /\ consumed = [k \in PlainKeys |-> 0]
  /\ mintedBy = <<>>
  /\ issued = {}
  /\ spent = {}
  /\ asked = <<>>
  /\ http = NoHttp
  /\ client = NoClient
  /\ admins = <<>>

\* A new request takes the lowest free slot (the slots are interchangeable).
Free(p) ==
  /\ procs[p].pc = "idle"
  /\ \A q \in Callers : q < p => procs[q].pc # "idle"

\* Request p returns or throws: its outcome is noted and p is free again.
Ends(p, op, result) ==
  /\ procs' = [procs EXCEPT ![p] = IdleProc]
  /\ outcome' = [by |-> p, op |-> op, result |-> result]

\* Request p returns { user, tokens } to its caller.
Returns(p, op, user, tokens) ==
  /\ procs' = [procs EXCEPT ![p] = IdleProc]
  /\ outcome' = [by |-> p, op |-> op, result |-> Ok, user |-> user, tokens |-> tokens]

\* Request p goes on to its next await.
Goes(p, next) ==
  /\ procs' = [procs EXCEPT ![p] = next]
  /\ outcome' = NoOutcome

\* A step of no request.
NoRequest ==
  /\ procs' = procs
  /\ outcome' = NoOutcome

\* --------------------------------------------------- RegistrationKeyService
\* generateKey(request, createdBy): the tenantId is validated, then one write;
\* the plaintext is fresh and is what the call returns.
generateKey(tenantId, accountType, usesAllowed, expiresAt) ==
  IF TenantIdMissing(tenantId)
  THEN /\ procs' = procs
       /\ outcome' = [by |-> 0, op |-> "generateKey", result |-> ErrGenerateKey]
       /\ UNCHANGED <<keys, asked, users, tokenRows, now, started, consumed, mintedBy,
                      issued, spent, admins, http, client>>
  ELSE LET key == Len(keys) + 1
       IN /\ Len(keys) < MaxKeys
          /\ keys' = createRegistrationKey(keys,
                       KeyData(key, tenantId, accountType, usesAllowed, expiresAt))
          /\ asked' = Append(asked, usesAllowed)
          /\ procs' = procs
          /\ outcome' = [by |-> 0, op |-> "generateKey", result |-> Ok, key |-> key]
          /\ UNCHANGED <<users, tokenRows, now, started, consumed, mintedBy, issued,
                         spent, admins, http, client>>

\* revokeKey(keyId)
revokeKey(keyId) ==
  /\ keys' = revokeRegistrationKey(keys, keyId)
  /\ keys' # keys
  /\ NoRequest
  /\ UNCHANGED <<users, tokenRows, now, started, consumed, mintedBy, issued, spent, asked, admins, http, client>>

\* validateAndConsumeKey, first await: read all keys, then find the match.
vcRead(p, plainKey, tenantId, budget) ==
  /\ Free(p)
  /\ started < budget
  /\ started' = started + 1
  /\ LET all == getAllRegistrationKeys(keys)
         matchingKey == FirstMatch(all, plainKey, 1)
     IN Goes(p, [IdleProc EXCEPT !.op = "vc", !.pc = "check",
                                 !.plainKey = plainKey, !.tenantId = tenantId,
                                 !.mk = matchingKey,
                                 !.afterRevoke =
                                    \E i \in 1..Len(keys) :
                                       /\ keys[i].keyHash = bcryptHash(plainKey)
                                       /\ keys[i].revoked])
  /\ UNCHANGED <<keys, users, tokenRows, now, consumed, mintedBy, issued, spent, asked, admins, http, client>>

\* The validations, where a rejected attempt on a stored key is logged on it.
vcCheckLogsFailure(p) ==
  /\ procs[p].op = "vc" /\ procs[p].pc = "check"
  /\ LET mk == procs[p].mk
         r == KeyCheck(mk, procs[p].tenantId, now)
     IN IF r = Ok
        THEN Goes(p, [procs[p] EXCEPT !.pc = "update"]) /\ keys' = keys
        ELSE /\ Ends(p, "vc", r)
             /\ keys' = IF mk.id = 0 THEN keys
                        ELSE updateRegistrationKey(keys, mk.id, mk.usesLeft,
                                                   ConsumeLogs(mk, procs[p].tenantId, now))
  /\ UNCHANGED <<users, tokenRows, now, started, consumed, mintedBy, issued, spent, asked, admins, http, client>>

\* validateAndConsumeKey, the validations (no await: the clock is read here).
vcCheck(p) ==
  /\ procs[p].op = "vc" /\ procs[p].pc = "check"
  /\ LET r == KeyCheck(procs[p].mk, procs[p].tenantId, now)
     IN IF r = Ok THEN Goes(p, [procs[p] EXCEPT !.pc = "update"])
                  ELSE Ends(p, "vc", r)
  /\ UNCHANGED <<keys, users, tokenRows, now, started, consumed, mintedBy, issued, spent, asked, admins, http, client>>

\* validateAndConsumeKey, second await: write the decremented counter and the log.
vcUpdate(p) ==
  /\ procs[p].op = "vc" /\ procs[p].pc = "update"
  /\ LET mk == procs[p].mk
     IN /\ keys' = updateRegistrationKey(keys, mk.id, mk.usesLeft - 1,
                                         ConsumeLogs(mk, procs[p].tenantId, now))
        /\ consumed' = [consumed EXCEPT ![mk.id] = @ + 1]
  /\ Ends(p, "vc", Ok)
  /\ UNCHANGED <<users, tokenRows, now, started, mintedBy, issued, spent, asked, admins, http, client>>

\* ------------------------------------------------------------- AuthService
\* registerUser, first await: load the valid keys, find the match.
regFindKey(p, email, key, budget) ==
  /\ Free(p)
  /\ started < budget
  /\ started' = started + 1
  /\ LET validKeys == findValidRegistrationKeys(keys, now)
         registrationKey == RegistrationKeyOf(validKeys, key)
     IN IF registrationKey.id = 0 THEN Ends(p, "reg", ErrRegKey)
        ELSE IF registrationKey.tenantId = "" THEN Ends(p, "reg", ErrRegNoTenant)
        ELSE Goes(p, [IdleProc EXCEPT !.op = "reg", !.pc = "findUser",
                                      !.plainKey = key, !.email = email,
                                      !.mk = registrationKey])
  /\ UNCHANGED <<keys, users, tokenRows, now, consumed, mintedBy, issued, spent, asked, admins, http, client>>

\* registerUser, second await: is the email taken?
regFindUser(p) ==
  /\ procs[p].op = "reg" /\ procs[p].pc = "findUser"
  /\ LET existingUser == findUserByEmail(users, procs[p].email)
     IN IF existingUser.id # 0 THEN Ends(p, "reg", ErrUserExists)
        ELSE Goes(p, [procs[p] EXCEPT !.pc = "getTenants"])
  /\ UNCHANGED <<keys, users, tokenRows, now, started, consumed, mintedBy, issued, spent, asked, admins, http, client>>

\* registerUser, third await: resolve the key's tenant.
regGetTenants(p) ==
  /\ procs[p].op = "reg" /\ procs[p].pc = "getTenants"
  /\ LET tenant == FindTenant(getAllTenants, procs[p].mk)
     IN IF tenant = {} THEN Ends(p, "reg", ErrTenantNotFound)
        ELSE Goes(p, [procs[p] EXCEPT !.pc = "createUser",
                                      !.tenantId = CHOOSE t \in tenant : TRUE])
  /\ UNCHANGED <<keys, users, tokenRows, now, started, consumed, mintedBy, issued, spent, asked, admins, http, client>>

\* registerUser, fourth await: create the user.
regCreateUser(p) ==
  /\ procs[p].op = "reg" /\ procs[p].pc = "createUser"
  /\ users' = createUser(users, UserData(procs[p].email, RegPassword, RegName,
                                         procs[p].mk, procs[p].tenantId))
  /\ mintedBy' = Append(mintedBy, procs[p].mk.id)
  /\ Goes(p, [procs[p] EXCEPT !.pc = "updateKey", !.user = users'[Len(users')]])
  /\ UNCHANGED <<keys, tokenRows, now, started, consumed, issued, spent, asked, admins, http, client>>

\* registerUser, fifth await: write the key's decremented counter and log.
regUpdateKey(p) ==
  /\ procs[p].op = "reg" /\ procs[p].pc = "updateKey"
  /\ LET registrationKey == procs[p].mk
     IN keys' = updateRegistrationKeyUsage(keys, registrationKey.id,
                  registrationKey.usesLeft - 1,
                  RegisterLogs(registrationKey, procs[p].user, now))
  /\ Goes(p, [procs[p] EXCEPT !.pc = "tokens"])
  /\ UNCHANGED <<users, tokenRows, now, started, consumed, mintedBy, issued, spent, asked, admins, http, client>>

\* The response keeps the password field.
WithPassword(user) == user

\* const { password: _, ...userWithoutPassword } = user
WithoutPassword(user) == [f \in DOMAIN user \ {"password"} |-> user[f]]

\* The error of the store's insert reaches the caller.
TokenPairOrThrow(user, storeUp) ==
  IF storeUp THEN [refreshToken |-> jwtSign(user, now)] ELSE [error |-> "store"]

\* The pair generateTokens returns, whether or not the insert succeeded (the
\* catch only logs); the access token, signed from the same payload with the
\* access secret, is read by no operation of the service.
TokenPair(user, storeUp) == [refreshToken |-> jwtSign(user, now)]

\* generateTokens(user): sign, then store the refresh token's hash; a failure
\* of the store is logged and swallowed.
generateTokens(user, storeUp, by) ==
  LET refreshToken == jwtSign(user, now)
  IN /\ tokenRows' = IF storeUp
                     THEN createRefreshToken(tokenRows, TokenData(user, refreshToken, now))
                     ELSE tokenRows
     /\ issued' = issued \cup {[token |-> refreshToken, by |-> by]}

\* registerUser, last await: issue the tokens and return.
regTokens(p, storeUp) ==
  /\ procs[p].op = "reg" /\ procs[p].pc = "tokens"
  /\ generateTokens(procs[p].user, storeUp, "register")
  /\ Returns(p, "reg", WithoutPassword(procs[p].user), TokenPair(procs[p].user, storeUp))
  /\ UNCHANGED <<keys, users, now, started, consumed, mintedBy, spent, asked, admins, http, client>>

\* verifyRefreshToken(token), as refreshTokens starts: jwt.verify, then the
\* first await (the user's active rows), which the comparison loop runs over.
rfVerify(p, token, budget) ==
  /\ Free(p)
  /\ started < budget
  /\ started' = started + 1
  /\ LET userTokens == getActiveRefreshTokensForUser(tokenRows, token.userId)
     IN IF ~jwtVerify(token, now)
        THEN Ends(p, "refresh", ErrRefreshToken)
        ELSE Goes(p, [IdleProc EXCEPT !.op = "refresh", !.pc = "compare",
                                      !.token = token,
                                      !.row = FirstTokenRow(userTokens, token, 1),
                                      !.wasSpent = token \in spent,
                                      !.wasFresh = /\ [token |-> token, by |-> "refresh"] \in issued
                                                   /\ token \notin spent])
  /\ UNCHANGED <<keys, users, tokenRows, now, consumed, mintedBy, issued, spent, asked, admins, http, client>>

\* verifyRefreshToken, after its comparison loop: is there a matching row?
rfCompare(p) ==
  /\ procs[p].op = "refresh" /\ procs[p].pc = "compare"
  /\ LET isValidToken == procs[p].row # 0
     IN IF ~isValidToken
        THEN Ends(p, "refresh", ErrRefreshToken)
        ELSE Goes(p, [procs[p] EXCEPT !.pc = "findUser", !.row = 0])
  /\ UNCHANGED <<keys, users, tokenRows, now, started, consumed, mintedBy, issued, spent, asked, admins, http, client>>

\* refreshTokens, second await: fresh user data.
rfFindUser(p) ==
  /\ procs[p].op = "refresh" /\ procs[p].pc = "findUser"
  /\ LET user == findUserByEmail(users, procs[p].token.email)
     IN IF user.id = 0 \/ ~user.isActive
        THEN Ends(p, "refresh", ErrUserInactive)
        ELSE Goes(p, [procs[p] EXCEPT !.pc = "getTokens", !.user = user])
  /\ UNCHANGED <<keys, users, tokenRows, now, started, consumed, mintedBy, issued, spent, asked, admins, http, client>>

\* refreshTokens, third await: the user's active rows again, and the loop
\* that finds the row to revoke.
rfGetTokens(p) ==
  /\ procs[p].op = "refresh" /\ procs[p].pc = "getTokens"
  /\ LET userTokens == getActiveRefreshTokensForUser(tokenRows, procs[p].token.userId)
         storedToken == FirstTokenRow(userTokens, procs[p].token, 1)
     IN Goes(p, [procs[p] EXCEPT !.pc = IF storedToken = 0 THEN "tokens" ELSE "revoke",
                                 !.row = storedToken])
  /\ UNCHANGED <<keys, users, tokenRows, now, started, consumed, mintedBy, issued, spent, asked, admins, http, client>>

\* refreshTokens, fourth await: revoke the row found.
rfRevoke(p) ==
  /\ procs[p].op = "refresh" /\ procs[p].pc = "revoke"
  /\ tokenRows' = revokeRefreshTokenById(tokenRows, procs[p].row)
  /\ Goes(p, [procs[p] EXCEPT !.pc = "tokens"])
  /\ UNCHANGED <<keys, users, now, started, consumed, mintedBy, issued, spent, asked, admins, http, client>>

\* refreshTokens, last await: issue the new pair and return.
rfTokens(p, storeUp) ==
  /\ procs[p].op = "refresh" /\ procs[p].pc = "tokens"
  /\ generateTokens(procs[p].user, storeUp, "refresh")
  /\ spent' = (spent \cup {procs[p].token}) \ {jwtSign(procs[p].user, now)}
  /\ Returns(p, "refresh", procs[p].user, TokenPair(procs[p].user, storeUp))
  /\ UNCHANGED <<keys, users, now, started, consumed, mintedBy, asked, admins, http, client>>

\* The lookup and checks, where a rejected attempt on an existing account
\* stamps its last login.
lgFindStampsAttempt(p, email, password, budget) ==
  /\ Free(p)
  /\ started < budget
  /\ started' = started + 1
  /\ LET user == findUserByEmail(users, email)
     IN IF user.id = 0 THEN Ends(p, "login", ErrCredentials) /\ users' = users
        ELSE IF ~user.isActive THEN Ends(p, "login", ErrDeactivated) /\ users' = users
        ELSE IF ~bcryptCompare(password, user.password)
             THEN /\ Ends(p, "login", ErrCredentials)
                  /\ users' = updateUserLastLogin(users, user.id, now)
        ELSE /\ Goes(p, [IdleProc EXCEPT !.op = "login", !.pc = "lastLogin",
                                         !.email = email, !.user = user])
             /\ users' = users
  /\ UNCHANGED <<keys, tokenRows, now, consumed, mintedBy, issued, spent, asked, admins, http, client>>

\* loginUser, first await: find the user, then the checks.
lgFind(p, email, password, budget) ==
  /\ Free(p)
  /\ started < budget
  /\ started' = started + 1
  /\ LET user == findUserByEmail(users, email)
     IN IF user.id = 0 THEN Ends(p, "login", ErrCredentials)
        ELSE IF ~user.isActive THEN Ends(p, "login", ErrDeactivated)
        ELSE IF ~bcryptCompare(password, user.password) THEN Ends(p, "login", ErrCredentials)
        ELSE Goes(p, [IdleProc EXCEPT !.op = "login", !.pc = "lastLogin",
                                      !.email = email, !.user = user])
  /\ UNCHANGED <<keys, users, tokenRows, now, consumed, mintedBy, issued, spent, asked, admins, http, client>>

\* loginUser, second await: update last login.
lgLastLogin(p) ==
  /\ procs[p].op = "login" /\ procs[p].pc = "lastLogin"
  /\ users' = updateUserLastLogin(users, procs[p].user.id, now)
  /\ Goes(p, [procs[p] EXCEPT !.pc = "tokens"])
  /\ UNCHANGED <<keys, tokenRows, now, started, consumed, mintedBy, issued, spent, asked, admins, http, client>>

\* loginUser, last await: issue the tokens and return.
lgTokens(p, storeUp) ==
  /\ procs[p].op = "login" /\ procs[p].pc = "tokens"
  /\ generateTokens(procs[p].user, storeUp, "login")
  /\ Returns(p, "login", WithoutPassword(procs[p].user), TokenPair(procs[p].user, storeUp))
  /\ UNCHANGED <<keys, users, now, started, consumed, mintedBy, spent, asked, admins, http, client>>

\* The clock advances.
Tick ==
  /\ now < MaxTime
  /\ now' = now + 1
  /\ NoRequest
  /\ UNCHANGED <<keys, users, tokenRows, started, consumed, mintedBy, issued, spent, asked, admins, http, client>>

Next ==
  \/ \E t \in TenantIds, a \in KeyTiers, u \in {Undefined} \cup 0..MaxUses,
        e \in {NoExpiry} \cup 0..(MaxTime - 1) : generateKey(t, a, u, e)
  \/ \E k \in 1..MaxKeys : revokeKey(k)
  \/ \E p \in Callers, k \in {BadPlainKey} \cup PlainKeys, t \in TenantIds :
        vcRead(p, k, t, MaxCalls)
  \/ \E p \in Callers : vcCheck(p)
  \/ \E p \in Callers : vcUpdate(p)
  \/ \E p \in Callers, e \in Emails, k \in {BadPlainKey} \cup PlainKeys :
        regFindKey(p, e, k, MaxCalls)
  \/ \E p \in Callers : regFindUser(p)
  \/ \E p \in Callers : regGetTenants(p)
  \/ \E p \in Callers : regCreateUser(p)
  \/ \E p \in Callers : regUpdateKey(p)
  \/ \E p \in Callers : regTokens(p, TRUE)
  \/ Tick

Spec == Init /\ [][Next]_vars

\* Sequential use of the key service: one caller, no overlapping calls.
NextSeq ==
  \/ \E t \in BlankTenantIds : generateKey(t, "SIMPLES", Undefined, NoExpiry)
  \/ \E t \in TenantIds, a \in KeyTiers, u \in {Undefined} \cup 0..MaxUses,
        e \in {NoExpiry} \cup 0..(MaxTime - 1) : generateKey(t, a, u, e)
  \/ \E k \in 1..MaxKeys : revokeKey(k)
  \/ \E k \in {BadPlainKey} \cup PlainKeys, t \in TenantIds : vcRead(1, k, t, MaxKeyCalls)
  \/ vcCheck(1)
  \/ vcUpdate(1)
  \/ Tick

SpecSeq == Init /\ [][NextSeq]_vars

\* The key service alone, its calls overlapping.
NextKeys ==
  \/ \E t \in TenantIds, a \in KeyTiers, u \in {Undefined} \cup 0..MaxUses,
        e \in {NoExpiry} \cup 0..(MaxTime - 1) : generateKey(t, a, u, e)
  \/ \E k \in 1..MaxKeys : revokeKey(k)
  \/ \E p \in Callers, k \in {BadPlainKey} \cup PlainKeys, t \in TenantIds :
        vcRead(p, k, t, MaxKeyCalls)
  \/ \E p \in Callers : vcCheck(p)
  \/ \E p \in Callers : vcUpdate(p)
  \/ Tick

SpecKeys == Init /\ [][NextKeys]_vars

\* Login and refresh against a database that holds registered users.
RegisteredUser(id, email, tier, tenant, active) ==
  [id |-> id, lastLogin |-> NoDate, email |-> email, password |-> bcryptHash(RegPassword),
   name |-> RegName, accountType |-> tier, tenantId |-> tenant, isActive |-> active,
   mustChangePassword |-> FALSE]

\* A token signed with another secret than the refresh secret.
ForgedToken ==
  [jwtSign(RegisteredUser(1, "a@x.com", "SIMPLES", "T1", TRUE), 0) EXCEPT !.secret = "other"]

InitAuth ==
  /\ keys = <<>>
  /\ \E active \in BOOLEAN :
       users = <<RegisteredUser(1, "a@x.com", "SIMPLES", "T1", TRUE),
                 RegisteredUser(2, "b@x.com", "GERENCIAL", "T2", active)>>
  /\ tokenRows = <<>>
  /\ now = 0
  /\ procs = [p \in Callers |-> IdleProc]
  /\ outcome = NoOutcome
  /\ started = 0
  /\ consumed = [k \in PlainKeys |-> 0]
  /\ mintedBy = <<>>
  /\ issued = {}
  /\ spent = {}
  /\ asked = <<>>
  /\ http = NoHttp
  /\ client = NoClient
  /\ admins = <<>>

NextAuth ==
  \/ \E p \in Callers, e \in Emails \cup {"c@x.com"}, pw \in Passwords :
        lgFind(p, e, pw, MaxAuthCalls)
  \/ \E p \in Callers : lgLastLogin(p)
  \/ \E p \in Callers : lgTokens(p, TRUE)
  \/ \E p \in Callers, t \in {i.token : i \in issued} \cup {ForgedToken} :
        rfVerify(p, t, MaxAuthCalls)
  \/ \E p \in Callers : rfCompare(p)
  \/ \E p \in Callers : rfFindUser(p)
  \/ \E p \in Callers : rfGetTokens(p)
  \/ \E p \in Callers : rfRevoke(p)
  \/ \E p \in Callers : rfTokens(p, TRUE)
  \/ Tick

SpecAuth == InitAuth /\ [][NextAuth]_vars

\* ------------------------------------------------------------------ admins
AdminIdBase == 100                  \* admin ids are apart from user ids
AdminEmails == {"a@x.com", "r@x.com"}  \* one shared with a user, one not
ErrAdminCredentials == "Invalid admin credentials"
ErrAdminDeactivated == "Admin account is deactivated"

\* database.findAdminByEmail(email): the first admin with that email, or none.
findAdminByEmail(rows, email) == FirstUser(rows, email, 1)

\* database.updateAdminLastLogin(adminId)
updateAdminLastLogin(rows, adminId, date) == updateUserLastLogin(rows, adminId, date)

\* database.revokeAllUserTokens(userId): every row of the user made inactive.
revokeAllUserTokens(rows, userId) ==
  [i \in 1..Len(rows) |-> IF rows[i].userId = userId
                          THEN [rows[i] EXCEPT !.isActive = FALSE]
                          ELSE rows[i]]

\* An admin record: a role, no tenantId and no accountType.
RegisteredAdmin(id, email, active) ==
  [id |-> id, lastLogin |-> NoDate, email |-> email, password |-> bcryptHash(RegPassword),
   name |-> RegName, role |-> "admin", isActive |-> active]

\* loginAdmin, first await: find the admin, then the checks.
laFind(p, email, password, budget) ==
  /\ Free(p)
  /\ started < budget
  /\ started' = started + 1
  /\ LET admin == findAdminByEmail(admins, email)
     IN IF admin.id = 0 THEN Ends(p, "loginAdmin", ErrAdminCredentials)
        ELSE IF ~admin.isActive THEN Ends(p, "loginAdmin", ErrAdminDeactivated)
        ELSE IF ~bcryptCompare(password, admin.password)
             THEN Ends(p, "loginAdmin", ErrAdminCredentials)
        ELSE Goes(p, [IdleProc EXCEPT !.op = "loginAdmin", !.pc = "lastLogin",
                                      !.email = email, !.user = admin])
  /\ UNCHANGED <<keys, users, tokenRows, now, consumed, mintedBy, issued, spent, asked, admins, http, client>>

\* loginAdmin, second await: update last login.
laLastLogin(p) ==
  /\ procs[p].op = "loginAdmin" /\ procs[p].pc = "lastLogin"
  /\ admins' = updateAdminLastLogin(admins, procs[p].user.id, now)
  /\ Goes(p, [procs[p] EXCEPT !.pc = "tokens"])
  /\ UNCHANGED <<keys, users, tokenRows, now, started, consumed, mintedBy, issued, spent, asked, http, client>>

\* loginAdmin, last await: issue the tokens and return.
laTokens(p, storeUp) ==
  /\ procs[p].op = "loginAdmin" /\ procs[p].pc = "tokens"
  /\ generateTokens(procs[p].user, storeUp, "loginAdmin")
  /\ Returns(p, "loginAdmin", WithoutPassword(procs[p].user), TokenPair(procs[p].user, storeUp))
  /\ UNCHANGED <<keys, users, now, started, consumed, mintedBy, spent, asked, admins, http, client>>

\* revokeAllTokens(userId, isAdmin): one await for a user, none for an admin
\* (the admin branch only logs).
revokeAllTokens(userId, isAdmin) ==
  /\ tokenRows' = IF isAdmin THEN tokenRows ELSE revokeAllUserTokens(tokenRows, userId)
  /\ procs' = procs
  /\ outcome' = [by |-> 0, op |-> "revokeAllTokens", result |-> Ok]
  /\ UNCHANGED <<keys, users, now, started, consumed, mintedBy, issued, spent, asked, admins, http, client>>

\* Users and admins logging in, refreshing and being logged out everywhere.
InitAdmin ==
  /\ keys = <<>>
  /\ users = <<RegisteredUser(1, "a@x.com", "SIMPLES", "T1", TRUE)>>
  /\ \E e \in AdminEmails, active \in BOOLEAN :
       admins = <<RegisteredAdmin(AdminIdBase + 1, e, active)>>
  /\ tokenRows = <<>>
  /\ now = 0
  /\ procs = [p \in Callers |-> IdleProc]
  /\ outcome = NoOutcome
  /\ started = 0
  /\ consumed = [k \in PlainKeys |-> 0]
  /\ mintedBy = <<>>
  /\ issued = {}
  /\ spent = {}
  /\ asked = <<>>
  /\ http = NoHttp
  /\ client = NoClient

\* The ids revokeAllTokens may be given: the users' and the admins'.
IdentityIds == {users[i].id : i \in 1..Len(users)} \cup {admins[i].id : i \in 1..Len(admins)}

NextAdmin ==
  \/ \E p \in Callers, pw \in Passwords : lgFind(p, "a@x.com", pw, MaxAuthCalls)
  \/ \E p \in Callers : lgLastLogin(p)
  \/ \E p \in Callers : lgTokens(p, TRUE)
  \/ \E p \in Callers, e \in AdminEmails, pw \in Passwords : laFind(p, e, pw, MaxAuthCalls)
  \/ \E p \in Callers : laLastLogin(p)
  \/ \E p \in Callers : laTokens(p, TRUE)
  \/ \E p \in Callers, t \in {i.token : i \in issued} \cup {ForgedToken} :
        rfVerify(p, t, MaxAuthCalls)
  \/ \E p \in Callers : rfCompare(p)
  \/ \E p \in Callers : rfFindUser(p)
  \/ \E p \in Callers : rfGetTokens(p)
  \/ \E p \in Callers : rfRevoke(p)
  \/ \E p \in Callers : rfTokens(p, TRUE)
  \/ \E u \in IdentityIds, a \in BOOLEAN : revokeAllTokens(u, a)
  \/ Tick

SpecAdmin == InitAdmin /\ [][NextAdmin]_vars

\* ------------------------------------------------ accounts being deactivated
\* The administrative surface deactivates an account (user or admin).
deactivateAccount(id) ==
  /\ users' = [i \in 1..Len(users) |-> IF users[i].id = id
                                       THEN [users[i] EXCEPT !.isActive = FALSE]
                                       ELSE users[i]]
  /\ admins' = [i \in 1..Len(admins) |-> IF admins[i].id = id
                                         THEN [admins[i] EXCEPT !.isActive = FALSE]
                                         ELSE admins[i]]
  /\ <<users', admins'>> # <<users, admins>>
  /\ NoRequest
  /\ UNCHANGED <<keys, tokenRows, now, started, consumed, mintedBy, issued, spent, asked, http, client>>

\* Login, refresh and logout-everywhere while accounts are being deactivated.
NextChurn ==
  \/ NextAdmin
  \/ \E id \in IdentityIds : deactivateAccount(id)

SpecChurn == InitAdmin /\ [][NextChurn]_vars

\* ------------------------------------------- sessions with a faulty store
\* Registration, both logins and refresh, where the insert of a refresh-token
\* record may fail. One key for MaxUses registrations and one admin exist.
InitSession ==
  /\ keys = createRegistrationKey(<<>>, KeyData(1, "T1", "SIMPLES", MaxUses, NoExpiry))
  /\ asked = <<MaxUses>>
  /\ users = <<>>
  /\ admins = <<RegisteredAdmin(AdminIdBase + 1, "r@x.com", TRUE)>>
  /\ tokenRows = <<>>
  /\ now = 0
  /\ procs = [p \in Callers |-> IdleProc]
  /\ outcome = NoOutcome
  /\ started = 0
  /\ consumed = [k \in PlainKeys |-> 0]
  /\ mintedBy = <<>>
  /\ issued = {}
  /\ spent = {}
  /\ http = NoHttp
  /\ client = NoClient

NextSession ==
  \/ \E p \in Callers, e \in Emails : regFindKey(p, e, 1, MaxAuthCalls)
  \/ \E p \in Callers : regFindUser(p)
  \/ \E p \in Callers : regGetTenants(p)
  \/ \E p \in Callers : regCreateUser(p)
  \/ \E p \in Callers : regUpdateKey(p)
  \/ \E p \in Callers, storeUp \in BOOLEAN : regTokens(p, storeUp)
  \/ \E p \in Callers, e \in Emails : lgFind(p, e, RegPassword, MaxAuthCalls)
  \/ \E p \in Callers : lgLastLogin(p)
  \/ \E p \in Callers, storeUp \in BOOLEAN : lgTokens(p, storeUp)
  \/ \E p \in Callers : laFind(p, "r@x.com", RegPassword, MaxAuthCalls)
  \/ \E p \in Callers : laLastLogin(p)
  \/ \E p \in Callers, storeUp \in BOOLEAN : laTokens(p, storeUp)
  \/ \E p \in Callers, t \in {i.token : i \in issued} : rfVerify(p, t, MaxAuthCalls)
  \/ \E p \in Callers : rfCompare(p)
  \/ \E p \in Callers : rfFindUser(p)
  \/ \E p \in Callers : rfGetTokens(p)
  \/ \E p \in Callers : rfRevoke(p)
  \/ \E p \in Callers, storeUp \in BOOLEAN : rfTokens(p, storeUp)
  \/ Tick

SpecSession == InitSession /\ [][NextSession]_vars

\* ------------------------------------------------ logins with a faulty store
\* loginUser alone, with right and wrong passwords, known and unknown emails,
\* an account that may be deactivated, and an insert that may fail.
NextLogin ==
  \/ \E p \in Callers, e \in Emails \cup {"c@x.com"}, pw \in Passwords :
        lgFind(p, e, pw, MaxAuthCalls)
  \/ \E p \in Callers : lgLastLogin(p)
  \/ \E p \in Callers, storeUp \in BOOLEAN : lgTokens(p, storeUp)
  \/ Tick

SpecLogin == InitAuth /\ [][NextLogin]_vars

\* ----------------------------------------------------- client AuthProvider
\* The users a profile, login or register response may carry.
ClientUsers ==
  {[present |-> TRUE, email |-> e, accountType |-> a] : e \in Emails, a \in KeyTiers}

\* !!user
isAuthenticated == client.user.present

\* The other variables when the browser takes a step.
server == <<keys, users, tokenRows, now, procs, outcome, started, consumed,
            mintedBy, issued, spent, asked, admins, http>>

\* The page is loaded again: AuthProvider mounts with its initial state and a
\* new apiService; localStorage is kept.
Mount ==
  /\ client.pc # "mount"
  /\ client.mounts < MaxMounts
  /\ client' = [NoClient EXCEPT !.pc = "mount", !.accessToken = client.accessToken,
                                !.mounts = client.mounts + 1]
  /\ UNCHANGED server

\* The profile fetch never leaves the loading state when it fails.
checkAuthStatusSettlesNoFinally(ok, user) ==
  /\ client.pc = "profile"
  /\ client' = IF ok
               THEN [client EXCEPT !.user = user, !.isLoading = FALSE,
                                   !.check = "ok", !.pc = "idle"]
               ELSE [client EXCEPT !.apiToken = "", !.check = "failed", !.pc = "idle"]
  /\ UNCHANGED server

\* checkAuthStatus, up to its await: read the stored token; without one (or
\* when localStorage throws) stop loading, with one hand it to apiService and
\* fetch the profile.
checkAuthStatus(readable) ==
  /\ client.pc = "mount"
  /\ client' = IF ~readable
               THEN [client EXCEPT !.apiToken = "", !.isLoading = FALSE,
                                   !.check = "failed", !.pc = "idle"]
               ELSE IF client.accessToken = ""
               THEN [client EXCEPT !.isLoading = FALSE, !.check = "absent", !.pc = "idle"]
               ELSE [client EXCEPT !.apiToken = client.accessToken, !.pc = "profile"]
  /\ UNCHANGED server

\* checkAuthStatus, after its await: getProfile resolved with a user or
\* rejected; the finally block stops loading.
checkAuthStatusSettles(ok, user) ==
  /\ client.pc = "profile"
  /\ client' = IF ok
               THEN [client EXCEPT !.user = user, !.isLoading = FALSE,
                                   !.check = "ok", !.pc = "idle"]
               ELSE [client EXCEPT !.apiToken = "", !.isLoading = FALSE,
                                   !.check = "failed", !.pc = "idle"]
  /\ UNCHANGED server

\* login(email, password) and register(email, password, name, key), up to
\* their await; the pages that call them are rendered once loading is over.
clientLogin(op) ==
  /\ client.pc = "idle" /\ ~client.isLoading
  /\ client' = [client EXCEPT !.pc = op]
  /\ UNCHANGED server

\* login and register, after their await: the response's user and access
\* token are kept, or the error is rethrown.
clientLoginSettles(ok, user) ==
  /\ client.pc \in {"login", "register"}
  /\ client' = IF ok
               THEN [client EXCEPT !.user = user, !.accessToken = user.email, !.pc = "idle"]
               ELSE [client EXCEPT !.pc = "idle"]
  /\ UNCHANGED server

\* logout, up to its await.
logout ==
  /\ client.pc = "idle" /\ ~client.isLoading
  /\ client' = [client EXCEPT !.pc = "logout"]
  /\ UNCHANGED server

\* logout, after its await: whether apiService.logout resolved or rejected,
\* the finally block clears the token and the user.
logoutSettles(ok) ==
  /\ client.pc = "logout"
  /\ client' = [client EXCEPT !.apiToken = "", !.user = NoClientUser, !.pc = "idle"]
  /\ UNCHANGED server

\* The page has just been opened, with or without a token of an earlier
\* session in localStorage.
InitClient ==
  /\ keys = <<>>
  /\ users = <<>>
  /\ tokenRows = <<>>
  /\ now = 0
  /\ procs = [p \in Callers |-> IdleProc]
  /\ outcome = NoOutcome
  /\ started = 0
  /\ consumed = [k \in PlainKeys |-> 0]
  /\ mintedBy = <<>>
  /\ issued = {}
  /\ spent = {}
  /\ asked = <<>>
  /\ admins = <<>>
  /\ http = NoHttp
  /\ \E t \in {""} \cup Emails :
       client = [NoClient EXCEPT !.pc = "mount", !.accessToken = t, !.mounts = 1]

NextClient ==
  \/ Mount
  \/ \E readable \in BOOLEAN : checkAuthStatus(readable)
  \/ \E ok \in BOOLEAN, user \in ClientUsers : checkAuthStatusSettles(ok, user)
  \/ \E op \in {"login", "register"} : clientLogin(op)
  \/ \E ok \in BOOLEAN, user \in ClientUsers : clientLoginSettles(ok, user)
  \/ logout
  \/ \E ok \in BOOLEAN : logoutSettles(ok)

\* The effect runs once the component has mounted, and a request that was
\* sent is answered or fails.
SpecClient ==
  /\ InitClient /\ [][NextClient]_vars
  /\ WF_vars(\E readable \in BOOLEAN : checkAuthStatus(readable))
  /\ WF_vars(\E ok \in BOOLEAN, user \in ClientUsers : checkAuthStatusSettles(ok, user))

\* -------------------------------------------------------- RBAC middleware
\* res: the middleware called next().
PassedOn == [kind |-> "next"]

ErrNoAccountType == "Usuario nao autenticado ou tipo de conta nao identificado"
ErrTierDenied    == "Acesso negado para este tipo de conta"
ErrNoTenant      == "Usuario nao autenticado ou tenant nao identificado"
ErrTenantDenied  == "Acesso negado: tenant nao autorizado"

\* requireAccountTypes skipping the test for an identity.
requireAccountTypesNoIdentityTest(allowedTypes, req) ==
  IF req.user.accountType \notin allowedTypes
  THEN [kind |-> "json", status |-> 403,
        body |-> [error |-> ErrTierDenied, required |-> allowedTypes,
                  current |-> req.user.accountType]]
  ELSE PassedOn

\* requireAccountTypes(allowedTypes)(req, res, next): what the middleware
\* answers, or that it passed the request on.
requireAccountTypes(allowedTypes, req) ==
  IF ~req.user.present \/ req.user.accountType = ""
  THEN [kind |-> "json", status |-> 401, body |-> [error |-> ErrNoAccountType]]
  ELSE IF req.user.accountType \notin allowedTypes
  THEN [kind |-> "json", status |-> 403,
        body |-> [error |-> ErrTierDenied, required |-> allowedTypes,
                  current |-> req.user.accountType]]
  ELSE PassedOn

\* forbidAccountTypes without the inversion: it denies the tiers outside the set.
forbidAccountTypesNotInverted(forbiddenTypes, req) ==
  IF ~req.user.present \/ req.user.accountType = ""
  THEN [kind |-> "json", status |-> 401, body |-> [error |-> ErrNoAccountType]]
  ELSE IF req.user.accountType \notin forbiddenTypes
  THEN [kind |-> "json", status |-> 403,
        body |-> [error |-> ErrTierDenied, forbidden |-> forbiddenTypes,
                  current |-> req.user.accountType]]
  ELSE PassedOn

\* forbidAccountTypes(forbiddenTypes)(req, res, next)
forbidAccountTypes(forbiddenTypes, req) ==
  IF ~req.user.present \/ req.user.accountType = ""
  THEN [kind |-> "json", status |-> 401, body |-> [error |-> ErrNoAccountType]]
  ELSE IF req.user.accountType \in forbiddenTypes
  THEN [kind |-> "json", status |-> 403,
        body |-> [error |-> ErrTierDenied, forbidden |-> forbiddenTypes,
                  current |-> req.user.accountType]]
  ELSE PassedOn

\* requireCashFlowAccess letting every tier in.
requireCashFlowAccessAnyTier(req) == requireAccountTypes(AccountTypes, req)

\* requireCashFlowAccess = requireAccountTypes([COMPOSTA, GERENCIAL])
requireCashFlowAccess(req) == requireAccountTypes({"COMPOSTA", "GERENCIAL"}, req)

\* requireSettingsAccess = requireAccountTypes([GERENCIAL])
requireSettingsAccess(req) == requireAccountTypes({"GERENCIAL"}, req)

\* getDashboardPermissions opening the settings to every tier but SIMPLES.
getDashboardPermissionsOpenSettings(accountType) ==
  [canViewFinancialCharts |-> accountType # "SIMPLES",
   canViewCashFlow |-> accountType \in {"COMPOSTA", "GERENCIAL"},
   canViewSettings |-> accountType # "SIMPLES",
   canViewAllModules |-> accountType = "GERENCIAL"]

\* getDashboardPermissions(accountType)
getDashboardPermissions(accountType) ==
  [canViewFinancialCharts |-> accountType # "SIMPLES",
   canViewCashFlow |-> accountType \in {"COMPOSTA", "GERENCIAL"},
   canViewSettings |-> accountType = "GERENCIAL",
   canViewAllModules |-> accountType = "GERENCIAL"]

\* validateTenantAccess without the comparison of the path's tenant.
validateTenantAccessNoPathTest(req) ==
  IF ~req.user.present \/ req.user.tenantId = ""
  THEN [kind |-> "json", status |-> 401, body |-> [error |-> ErrNoTenant]]
  ELSE PassedOn

\* validateTenantAccess(req, res, next)
validateTenantAccess(req) ==
  LET pathTenantId == req.params.tenantId
  IN IF ~req.user.present \/ req.user.tenantId = ""
     THEN [kind |-> "json", status |-> 401, body |-> [error |-> ErrNoTenant]]
     ELSE IF pathTenantId # "" /\ pathTenantId # req.user.tenantId
     THEN [kind |-> "json", status |-> 403,
           body |-> [error |-> ErrTenantDenied, userTenant |-> req.user.tenantId,
                     requestedTenant |-> pathTenantId]]
     ELSE PassedOn

\* The requests a middleware may be handed: no identity, or an identity with
\* or without a tier and a tenant; a path with or without a tenant id.
Requests ==
  [user : {NoIdentity} \cup [present : {TRUE}, accountType : AccountTypes \cup {""},
                              tenantId : {"", "T1", "T2"}],
   params : [tenantId : {"", "T1", "T2"}]]

\* What the middlewares leave alone: the store and the requests of the services.
services == <<keys, users, tokenRows, now, procs, outcome, started, consumed,
              mintedBy, issued, spent, asked, admins, client>>

\* http after the middleware (or the permissions helper) `name` has answered res.
Answered(name, types, res) ==
  [http EXCEPT !.mw = [name |-> name, types |-> types], !.res = res]

RunRequireAccountTypes(allowedTypes) ==
  /\ http' = Answered("requireAccountTypes", allowedTypes,
                      requireAccountTypes(allowedTypes, http.req))
  /\ UNCHANGED services

RunForbidAccountTypes(forbiddenTypes) ==
  /\ http' = Answered("forbidAccountTypes", forbiddenTypes,
                      forbidAccountTypes(forbiddenTypes, http.req))
  /\ UNCHANGED services

RunRequireCashFlowAccess ==
  /\ http' = Answered("requireCashFlowAccess", {}, requireCashFlowAccess(http.req))
  /\ UNCHANGED services

RunRequireSettingsAccess ==
  /\ http' = Answered("requireSettingsAccess", {}, requireSettingsAccess(http.req))
  /\ UNCHANGED services

RunValidateTenantAccess ==
  /\ http' = Answered("validateTenantAccess", {}, validateTenantAccess(http.req))
  /\ UNCHANGED services

\* The dashboard asks for the permissions of the caller's tier.
RunGetDashboardPermissions ==
  /\ http.req.user.present /\ http.req.user.accountType \in AccountTypes
  /\ http' = Answered("getDashboardPermissions", {},
                      getDashboardPermissions(http.req.user.accountType))
  /\ UNCHANGED services

InitRbac ==
  /\ keys = <<>>
  /\ users = <<>>
  /\ tokenRows = <<>>
  /\ now = 0
  /\ procs = [p \in Callers |-> IdleProc]
  /\ outcome = NoOutcome
  /\ started = 0
  /\ consumed = [k \in PlainKeys |-> 0]
  /\ mintedBy = <<>>
  /\ issued = {}
  /\ spent = {}
  /\ asked = <<>>
  /\ admins = <<>>
  /\ \E r \in Requests : http = [NoHttp EXCEPT !.req = r]
  /\ client = NoClient

NextRbac ==
  \/ \E allowedTypes \in SUBSET AccountTypes : RunRequireAccountTypes(allowedTypes)
  \/ \E forbiddenTypes \in SUBSET AccountTypes : RunForbidAccountTypes(forbiddenTypes)
  \/ RunRequireCashFlowAccess
  \/ RunRequireSettingsAccess
  \/ RunValidateTenantAccess
  \/ RunGetDashboardPermissions

SpecRbac == InitRbac /\ [][NextRbac]_vars

\* =================================================================== claims
KeyIds == 1..Len(keys)

\* In this step request p ended, with this outcome.
Ended(p, op, result) ==
  /\ procs'[p] = IdleProc
  /\ outcome'.by = p /\ outcome'.op = op /\ outcome'.result = result

\* The usesAllowed a key was generated with (1 when the request left it out).
Asked(k) == IF asked[k] = Undefined THEN 1 ELSE asked[k]

Expired(k, date) == k.expiresAt # NoExpiry /\ date > k.expiresAt

\* C1: for a key with usesAllowed = 1, concurrent validateAndConsumeKey
\* calls with the right plaintext and tenant yield exactly one success: no
\* single-use key is ever consumed by more than one call.
C1_SingleUseConsumedOnce ==
  \A k \in KeyIds : keys[k].usesAllowed = 1 => consumed[k] <= 1

\* C2: under any interleaving of registerUser calls with distinct emails
\* presenting the same key, the number of users created with that key (counted
\* by their distinct emails) never exceeds its usesAllowed.
C2_UsersWithinUsesAllowed ==
  \A k \in KeyIds :
    Cardinality({users[u].email : u \in {v \in 1..Len(users) : mintedBy[v] = k}})
       <= keys[k].usesAllowed

\* C3: across every step each stored key's usesLeft is >= 0 and is never
\* greater than its value in the preceding state.
C3_UsesLeftMonotone ==
  [][\A k \in KeyIds : /\ keys'[k].usesLeft >= 0
                       /\ keys'[k].usesLeft <= keys[k].usesLeft]_vars

\* C4: sequential validateAndConsumeKey calls succeed exactly usesAllowed
\* times for the usesAllowed the key was generated with: never more, and the
\* key is exhausted only after that many successes.
C4_SucceedsUsesAllowedTimes ==
  \A k \in KeyIds : /\ consumed[k] <= Asked(k)
                    /\ keys[k].usesLeft = 0 => consumed[k] = Asked(k)

\* The step in which request p runs the validations of validateAndConsumeKey
\* on a matched key of another tenant than the one requested.
C7_MismatchStep(p) ==
  /\ procs[p].op = "vc" /\ procs[p].pc = "check"
  /\ procs[p].mk.id # 0
  /\ procs[p].mk.tenantId # procs[p].tenantId
  /\ procs'[p] # procs[p]

\* C7 (as stated): validateAndConsumeKey on a key of tenant A with requested
\* tenant B # A always fails with the tenant-mismatch error, whatever the
\* key's usesLeft, expiry and revoked state.
C7_AlwaysTenantMismatch ==
  [][\A p \in Callers : C7_MismatchStep(p) => Ended(p, "vc", ErrTenant)]_vars

\* C7 (amended): validateAndConsumeKey on a key of tenant A with requested
\* tenant B # A always fails and writes nothing; the error is the
\* tenant-mismatch error when the key is not revoked, not expired and has
\* uses left, and otherwise the error of the first earlier check that fails
\* (revoked, then expired, then exhausted).
C7_MismatchAlwaysFails ==
  [][\A p \in Callers : C7_MismatchStep(p) =>
        /\ Ended(p, "vc",
             IF procs[p].mk.revoked THEN ErrRevoked
             ELSE IF Expired(procs[p].mk, now) THEN ErrExpired
             ELSE IF procs[p].mk.usesLeft <= 0 THEN ErrExhausted
             ELSE ErrTenant)
        /\ keys' = keys]_vars

C7_Witness ==
  \E p \in Callers : outcome = [by |-> p, op |-> "vc", result |-> ErrTenant]

\* C8: once a key is revoked it stays revoked, and every
\* validateAndConsumeKey call with its plaintext that starts afterwards
\* fails with the revoked error and leaves the keys as they are (usesLeft is
\* not decremented), also when usesLeft > 0 and the key has not expired.
C8_RevokedKeyFails ==
  [][/\ \A k \in KeyIds : keys[k].revoked => keys'[k].revoked
     /\ \A p \in Callers :
          (procs[p].op = "vc" /\ procs[p].afterRevoke /\ procs'[p] # procs[p]) =>
             /\ Ended(p, "vc", ErrRevoked)
             /\ keys' = keys]_vars

C8_Witness ==
  \E p \in Callers, k \in KeyIds :
     /\ outcome = [by |-> p, op |-> "vc", result |-> ErrRevoked]
     /\ keys[k].revoked /\ keys[k].usesLeft > 0 /\ ~Expired(keys[k], now)

\* C9: every user created by registerUser has the tenantId and the
\* accountType of the registration key that matched the presented plaintext.
C9_UserBoundToKey ==
  \A u \in 1..Len(users) :
     /\ users[u].tenantId = keys[mintedBy[u]].tenantId
     /\ users[u].accountType = keys[mintedBy[u]].accountType

C9_Witness ==
  \E u \in 1..Len(users) :
     users[u].tenantId = "T2" /\ users[u].accountType = "GERENCIAL"

RefreshEnds(p) == procs[p].op = "refresh" /\ procs'[p] = IdleProc

\* C5: after refreshTokens(oldToken) has succeeded, a later
\* refreshTokens(oldToken) fails, while refreshTokens with the newly issued
\* refresh token succeeds (its user being active).
C5_RotatedTokenRejected ==
  [][\A p \in Callers : RefreshEnds(p) =>
        /\ procs[p].wasSpent => outcome'.result # Ok
        /\ (/\ procs[p].wasFresh
            /\ findUserByEmail(users, procs[p].token.email).isActive)
              => outcome'.result = Ok]_vars

\* C6: of the refreshTokens calls that present the same refresh token and
\* overlap, at most one succeeds: a call that started before the token was
\* spent does not succeed once another call has succeeded with it.
C6_OneRefreshPerToken ==
  [][\A p \in Callers :
        (RefreshEnds(p) /\ ~procs[p].wasSpent /\ outcome'.result = Ok)
           => procs[p].token \notin spent]_vars

\* Key k is a single-use key that a registration has used up.
C11_UsedUp(k) ==
  /\ keys[k].usesAllowed = 1 /\ keys[k].usesLeft = 0
  /\ \E u \in 1..Len(users) : mintedBy[u] = k

\* Key k is valid as registerUser sees it: not revoked, not expired, uses left.
C11_Valid(k) ==
  ~keys[k].revoked /\ ~Expired(keys[k], now) /\ keys[k].usesLeft > 0

\* The step in which request p starts registerUser with the plaintext of key k.
C11_Starts(p, k) == \E e \in Emails : regFindKey(p, e, k, MaxCalls)

\* C11 (as stated): with a key of usesAllowed = 1, a registerUser with the
\* plaintext of a valid key passes the key validation and, when it succeeds,
\* returns a user with the key's tenantId and accountType; a registerUser
\* with the same plaintext after a registration has used the key up fails
\* with the exhaustion error.
C11_SecondFailsExhausted ==
  [][\A p \in Callers, k \in KeyIds :
        /\ (C11_Starts(p, k) /\ C11_Valid(k)) => procs'[p].op = "reg"
        /\ (procs[p].op = "reg" /\ Ended(p, "reg", Ok)) =>
              /\ procs[p].user.tenantId = procs[p].mk.tenantId
              /\ procs[p].user.accountType = procs[p].mk.accountType
        /\ (C11_Starts(p, k) /\ C11_UsedUp(k)) =>
              Ended(p, "reg", ErrExhausted) /\ users' = users]_vars

\* C11 (amended): as above, but the second registerUser fails with the
\* invalid-key error ("Invalid or expired registration key"): a used-up key
\* is not among the valid keys registerUser searches, so no key matches.
C11_SecondFailsInvalidKey ==
  [][\A p \in Callers, k \in KeyIds :
        /\ (C11_Starts(p, k) /\ C11_Valid(k)) => procs'[p].op = "reg"
        /\ (procs[p].op = "reg" /\ Ended(p, "reg", Ok)) =>
              /\ procs[p].user.tenantId = procs[p].mk.tenantId
              /\ procs[p].user.accountType = procs[p].mk.accountType
        /\ (C11_Starts(p, k) /\ C11_UsedUp(k)) =>
              Ended(p, "reg", ErrRegKey) /\ users' = users]_vars

C11_Witness ==
  /\ \E p \in Callers : outcome = [by |-> p, op |-> "reg", result |-> ErrRegKey]
  /\ \E k \in KeyIds : C11_UsedUp(k) /\ ~keys[k].revoked /\ ~Expired(keys[k], now)
  /\ \E i \in issued : i.by = "register"

\* The stored record of refresh token t: the row generateTokens wrote for it
\* (its user, and the expiry of the second it was signed in).
OwnRecord(r, t) == r.userId = t.userId /\ r.expiresAt = t.exp

\* C12: verifyRefreshToken accepts a token only if the token's own stored
\* record is active at the time the records are read: a correctly signed
\* token whose record was revoked or was never stored is rejected.
C12_AcceptsOnlyActiveRecord ==
  [][\A p \in Callers :
        (procs[p].pc = "idle" /\ procs'[p].op = "refresh" /\ procs'[p].row # 0) =>
           \E i \in 1..Len(tokenRows) :
              tokenRows[i].isActive /\ OwnRecord(tokenRows[i], procs'[p].token)]_vars

\* The ids of the admins.
AdminIds == {admins[i].id : i \in 1..Len(admins)}

\* C13: when revokeAllTokens(userId, isAdmin) returns, for either value of
\* isAdmin (true for an admin's id, false for a user's), no refresh-token
\* record of that identity is active (so that refreshTokens with any token
\* issued to it before fails).
C13_NoActiveTokenAfterRevokeAll ==
  [][\A u \in IdentityIds, a \in BOOLEAN :
        (revokeAllTokens(u, a) /\ (a <=> u \in AdminIds)) =>
           \A i \in 1..Len(tokenRows') :
              tokenRows'[i].userId = u => ~tokenRows'[i].isActive]_vars

\* C14: issuing tokens (loginUser, registerUser, refreshTokens' last step)
\* only adds a refresh-token record and leaves every earlier record as it
\* is, and rotating a token deactivates no record but the rotated token's
\* own: the user's other active tokens stay active.
C14_IssuanceKeepsTokens ==
  [][/\ Len(tokenRows') > Len(tokenRows) =>
          SubSeq(tokenRows', 1, Len(tokenRows)) = tokenRows
     /\ \A p \in Callers :
          (procs[p].op = "refresh" /\ procs[p].pc = "revoke" /\ procs'[p] # procs[p]) =>
             \A i \in 1..Len(tokenRows) :
                tokenRows'[i] # tokenRows[i] => OwnRecord(tokenRows[i], procs[p].token)]_vars

\* C15: a loginUser with an email no user has, or with a wrong password for
\* an existing account (active or not), fails with one and the same error,
\* the generic invalid-credentials error.
C15_SameErrorForUnknownAndWrongPassword ==
  [][\A p \in Callers, e \in Emails \cup {"c@x.com"}, pw \in Passwords :
        (/\ lgFind(p, e, pw, MaxAuthCalls)
         /\ \/ findUserByEmail(users, e).id = 0
            \/ ~bcryptCompare(pw, findUserByEmail(users, e).password)) =>
           Ended(p, "login", ErrCredentials)]_vars

\* C16: requireAccountTypes(allowed) calls next() if and only if the request
\* carries an identity whose accountType is in allowed; with no identity or
\* no accountType it answers 401, and with an identity whose tier is not in
\* allowed it answers 403 with required = allowed and current = the tier.
C16_RequireAccountTypes ==
  http.mw.name = "requireAccountTypes" =>
    LET user == http.req.user
        allowed == http.mw.types
    IN /\ (http.res = PassedOn) <=> (user.present /\ user.accountType \in allowed)
       /\ (~user.present \/ user.accountType = "") =>
             http.res.kind = "json" /\ http.res.status = 401
       /\ (user.present /\ user.accountType # "" /\ user.accountType \notin allowed) =>
             /\ http.res.kind = "json" /\ http.res.status = 403
             /\ http.res.body.required = allowed
             /\ http.res.body.current = user.accountType

C16_Witness ==
  /\ http.mw = [name |-> "requireAccountTypes", types |-> {"GERENCIAL"}]
  /\ http.req.user.present /\ http.req.user.accountType = "COMPOSTA"
  /\ http.res.kind = "json" /\ http.res.status = 403

\* C17: forbidAccountTypes is the inverse of requireAccountTypes: for a
\* caller with an identity and a tier and every tier set S,
\* forbidAccountTypes(S) passes the request on exactly when
\* requireAccountTypes(S) denies it (403), and both answer 401 when no
\* identity is attached.
C17_ForbidInvertsRequire ==
  http.mw.name = "forbidAccountTypes" =>
    LET user == http.req.user
        required == requireAccountTypes(http.mw.types, http.req)
    IN /\ (user.present /\ user.accountType # "") =>
             ((http.res = PassedOn) <=> (required.kind = "json" /\ required.status = 403))
       /\ ~user.present =>
             /\ http.res.kind = "json" /\ http.res.status = 401
             /\ required.kind = "json" /\ required.status = 401

C17_Witness ==
  /\ http.mw = [name |-> "forbidAccountTypes", types |-> {"SIMPLES"}]
  /\ http.req.user.present /\ http.req.user.accountType = "COMPOSTA"
  /\ http.res = PassedOn

\* The business order of the tiers: SIMPLES < COMPOSTA < GERENCIAL.
TierRank(accountType) ==
  CASE accountType = "SIMPLES" -> 1
    [] accountType = "COMPOSTA" -> 2
    [] accountType = "GERENCIAL" -> 3

\* C18: for a caller with a tier, requireCashFlowAccess passes exactly when
\* the tier is >= COMPOSTA and requireSettingsAccess passes exactly when the
\* tier is GERENCIAL; SIMPLES is denied by both.
C18_TierGates ==
  LET user == http.req.user
  IN (user.present /\ user.accountType \in AccountTypes) =>
       /\ http.mw.name = "requireCashFlowAccess" =>
             ((http.res = PassedOn) <=>
                 TierRank(user.accountType) >= TierRank("COMPOSTA"))
       /\ http.mw.name = "requireSettingsAccess" =>
             ((http.res = PassedOn) <=> user.accountType = "GERENCIAL")
       /\ (/\ http.mw.name \in {"requireCashFlowAccess", "requireSettingsAccess"}
           /\ user.accountType = "SIMPLES") =>
             http.res.kind = "json" /\ http.res.status = 403

C18_Witness ==
  /\ http.mw.name = "requireCashFlowAccess"
  /\ http.req.user.present /\ http.req.user.accountType = "COMPOSTA"
  /\ http.res = PassedOn

\* C19: validateTenantAccess answers 401 when the caller has no identity or
\* no tenantId, answers 403 when the path names a tenant other than the
\* caller's, and passes the request on only when the path's tenant is the
\* caller's or the path names no tenant.
C19_TenantIsolation ==
  http.mw.name = "validateTenantAccess" =>
    LET user == http.req.user
        pathTenantId == http.req.params.tenantId
    IN /\ (~user.present \/ user.tenantId = "") =>
             http.res.kind = "json" /\ http.res.status = 401
       /\ (user.present /\ user.tenantId # "" /\ pathTenantId # ""
                        /\ pathTenantId # user.tenantId) =>
             http.res.kind = "json" /\ http.res.status = 403
       /\ http.res = PassedOn =>
             /\ user.present /\ user.tenantId # ""
             /\ pathTenantId = "" \/ pathTenantId = user.tenantId

C19_Witness ==
  /\ http.mw.name = "validateTenantAccess"
  /\ http.req.user.present /\ http.req.user.tenantId = "T1"
  /\ http.req.params.tenantId = "T2"
  /\ http.res.kind = "json" /\ http.res.status = 403

\* C20: getDashboardPermissions is in lockstep with the middleware: for a
\* caller of any tier t, canViewCashFlow(t) is true exactly when
\* requireCashFlowAccess passes the caller and canViewSettings(t) is true
\* exactly when requireSettingsAccess passes the caller.
C20_DashboardLockstep ==
  http.mw.name = "getDashboardPermissions" =>
    /\ http.res.canViewCashFlow <=> (requireCashFlowAccess(http.req) = PassedOn)
    /\ http.res.canViewSettings <=> (requireSettingsAccess(http.req) = PassedOn)

C20_Witness ==
  /\ http.mw.name = "getDashboardPermissions"
  /\ http.req.user.accountType = "COMPOSTA"
  /\ http.res.canViewCashFlow /\ ~http.res.canViewSettings

\* C21: the record generateKey persists has usesLeft = usesAllowed when the
\* request supplies usesAllowed (for every supplied value, 0 included) and
\* usesLeft = 1 when it does not, with revoked = false and an empty usedLogs.
C21_PersistedUsesLeft ==
  [][Len(keys') > Len(keys) =>
        LET k == Len(keys')
        IN /\ keys'[k].usesLeft = IF asked'[k] = Undefined THEN 1 ELSE asked'[k]
           /\ keys'[k].revoked = FALSE
           /\ keys'[k].usedLogs = <<>>]_vars

\* C22: generateKey with an empty or whitespace-only tenantId fails with an
\* error and persists nothing: the stored keys are unchanged, and no stored
\* key ever has such a tenantId.
C22_BlankTenantRejected ==
  [][/\ \A t \in BlankTenantIds, a \in KeyTiers, u \in {Undefined} \cup 0..MaxUses,
           e \in {NoExpiry} \cup 0..(MaxTime - 1) :
          generateKey(t, a, u, e) =>
             /\ outcome' = [by |-> 0, op |-> "generateKey", result |-> ErrGenerateKey]
             /\ keys' = keys
     /\ \A k \in 1..Len(keys') : keys'[k].tenantId \notin BlankTenantIds]_vars

C22_Witness ==
  /\ outcome = [by |-> 0, op |-> "generateKey", result |-> ErrGenerateKey]
  /\ keys # <<>>

\* C23: validateAndConsumeKey checks the matched key in the order revoked,
\* expired, usesLeft > 0, tenant match and reports the first check that
\* fails, with an error of its own per cause (not-found, revoked, expired,
\* exhausted, tenant-mismatch); it goes on to consume only when all pass.
C23_FirstFailingCheckReported ==
  [][/\ Cardinality({ErrNotFound, ErrRevoked, ErrExpired, ErrExhausted, ErrTenant}) = 5
     /\ \A p \in Callers :
          (procs[p].op = "vc" /\ procs[p].pc = "check" /\ procs'[p] # procs[p]) =>
             LET matchingKey == procs[p].mk
             IN IF matchingKey.id = 0 THEN Ended(p, "vc", ErrNotFound)
                ELSE IF matchingKey.revoked THEN Ended(p, "vc", ErrRevoked)
                ELSE IF Expired(matchingKey, now) THEN Ended(p, "vc", ErrExpired)
                ELSE IF matchingKey.usesLeft <= 0 THEN Ended(p, "vc", ErrExhausted)
                ELSE IF matchingKey.tenantId # procs[p].tenantId
                     THEN Ended(p, "vc", ErrTenant)
                ELSE procs'[p].pc = "update"]_vars

\* A key that is expired and exhausted is reported as expired.
C23_Witness ==
  /\ \E p \in Callers : outcome = [by |-> p, op |-> "vc", result |-> ErrExpired]
  /\ \E k \in KeyIds : keys[k].usesLeft = 0 /\ Expired(keys[k], now) /\ ~keys[k].revoked

\* The columns of a stored registration key: no column for the plaintext.
KeyColumns == {"id", "keyHash", "tenantId", "accountType", "usesAllowed", "usesLeft",
               "expiresAt", "usedLogs", "revoked"}

\* C24: no stored registration-key record contains the plaintext key: every
\* record has the key's hash, which is not the plaintext, and no other
\* column for it; the plaintext is returned only by the generateKey call
\* that created the key.
C24_OnlyHashStored ==
  /\ \A k \in KeyIds :
        /\ DOMAIN keys[k] = KeyColumns
        /\ keys[k].keyHash = bcryptHash(k)
        /\ keys[k].keyHash # <<"plain", k>>
  /\ "key" \in DOMAIN outcome =>
        /\ outcome.op = "generateKey"
        /\ outcome.key = Len(keys)

C24_Witness ==
  /\ "key" \in DOMAIN outcome
  /\ outcome.op = "generateKey" /\ outcome.key = 1
  /\ keys[1].keyHash = bcryptHash(1)

\* The identity with this id (a user or an admin) exists and is active.
ActiveIdentity(id) ==
  \/ \E i \in 1..Len(users) : users[i].id = id /\ users[i].isActive
  \/ \E i \in 1..Len(admins) : admins[i].id = id /\ admins[i].isActive

\* C25: a refreshTokens call that has verified its token fails with the
\* user-not-found-or-inactive error, issuing no token pair and storing no
\* record, when the identity the token was issued to no longer exists or is
\* inactive at the time the call reloads the user.
C25_InactiveIdentityRejected ==
  [][\A p \in Callers :
        (/\ procs[p].op = "refresh" /\ procs[p].pc = "findUser"
         /\ ~ActiveIdentity(procs[p].token.userId)
         /\ procs'[p] # procs[p]) =>
           /\ Ended(p, "refresh", ErrUserInactive)
           /\ issued' = issued
           /\ tokenRows' = tokenRows]_vars

\* The columns of a user or admin record that hold no credential.
PublicColumns == {"id", "lastLogin", "email", "name", "accountType", "tenantId",
                  "isActive", "mustChangePassword", "role"}

\* The operations that return an identity with the password removed.
IdentityOps == {"login", "loginAdmin", "reg"}

\* C26: the identity a successful loginUser, loginAdmin or registerUser
\* returns has no password field: it holds only columns of the stored record
\* that carry no credential, the id, email, name and isActive among them.
C26_NoPasswordInIdentity ==
  (outcome.op \in IdentityOps /\ outcome.result = Ok) =>
      /\ "password" \notin DOMAIN outcome.user
      /\ DOMAIN outcome.user \subseteq PublicColumns
      /\ {"id", "email", "name", "isActive"} \subseteq DOMAIN outcome.user

C26_WitnessRegister ==
  outcome.op = "reg" /\ outcome.result = Ok /\ outcome.user.email \in Emails

\* C27: when the insert of the refresh-token record fails, the operation that
\* issues the tokens (registerUser, loginUser, loginAdmin, refreshTokens)
\* still succeeds and returns the token pair, and the store holds no record
\* for it; when the insert succeeds, exactly that record is added.
C27_StoreFailureSwallowed ==
  [][\A p \in Callers :
        (procs[p].pc = "tokens" /\ procs'[p] # procs[p]) =>
           LET token == jwtSign(procs[p].user, now)
           IN /\ outcome'.result = Ok
              /\ outcome'.tokens = [refreshToken |-> token]
              /\ [token |-> token, by |-> IF procs[p].op = "reg" THEN "register" ELSE procs[p].op]
                    \in issued'
              /\ \/ tokenRows' = tokenRows
                 \/ tokenRows' = createRefreshToken(tokenRows,
                                    TokenData(procs[p].user, token, now))]_vars

\* A login returned a token pair and the store holds no record at all.
C27_Witness ==
  /\ outcome.op = "login" /\ outcome.result = Ok
  /\ outcome.tokens.refreshToken.userId = 1
  /\ tokenRows = <<>>

\* C28: under every interleaving of validateAndConsumeKey and registerUser
\* each stored key has as many usedLogs entries as uses were taken from it
\* (usesAllowed - usesLeft), and a step only appends to usedLogs: the entries
\* a key had are still there, in place, after the step.
C28_UsedLogsAppendOnly ==
  [][\A k \in 1..Len(keys) :
        /\ Len(keys'[k].usedLogs) = keys'[k].usesAllowed - keys'[k].usesLeft
        /\ Len(keys'[k].usedLogs) >= Len(keys[k].usedLogs)
        /\ SubSeq(keys'[k].usedLogs, 1, Len(keys[k].usedLogs)) = keys[k].usedLogs]_vars

\* C29: a validateAndConsumeKey call that fails leaves every stored key as it
\* was: no step of a call writes to the keys except the one that ends the call
\* with success.
C29_FailingConsumeWritesNothing ==
  [][\A p \in Callers :
        (/\ procs[p].op = "vc" \/ procs'[p].op = "vc"
         /\ procs'[p] # procs[p]
         /\ ~Ended(p, "vc", Ok)) => keys' = keys]_vars

\* A call failed on a key that an earlier call had used up.
C29_Witness ==
  /\ \E p \in Callers : outcome = [by |-> p, op |-> "vc", result |-> ErrExhausted]
  /\ keys # <<>> /\ keys[1].usesLeft = 0 /\ Len(keys[1].usedLogs) = 1

\* The errors of registerUser the claim lists.
RegisterErrors == {ErrRegKey, ErrRegNoTenant, ErrUserExists, ErrTenantNotFound}

\* C30: a registerUser call that fails with one of its four errors has
\* created no user, written to no key and stored no refresh token (every step
\* of a call up to its failure leaves the three tables as they were); a call
\* that succeeds creates exactly one user, and its write to the key takes
\* exactly one from the stored usesLeft and appends exactly one entry to the
\* stored usedLogs.
C30_RegisterAllOrNothing ==
  [][\A p \in Callers :
        /\ (/\ procs'[p] # procs[p]
            /\ procs[p].op = "reg" \/ procs'[p].op = "reg"
            /\ procs[p].pc \in {"idle", "findUser", "getTenants"}) =>
               /\ users' = users /\ keys' = keys /\ tokenRows' = tokenRows
               /\ procs'[p] = IdleProc => outcome'.result \in RegisterErrors
        /\ (procs[p].op = "reg" /\ procs[p].pc = "createUser" /\ procs'[p] # procs[p]) =>
               /\ Len(users') = Len(users) + 1
               /\ SubSeq(users', 1, Len(users)) = users
        /\ (procs[p].op = "reg" /\ procs[p].pc = "updateKey" /\ procs'[p] # procs[p]) =>
               LET k == procs[p].mk.id
               IN /\ users' = users
                  /\ keys'[k].usesLeft = keys[k].usesLeft - 1
                  /\ Len(keys'[k].usedLogs) = Len(keys[k].usedLogs) + 1
                  /\ SubSeq(keys'[k].usedLogs, 1, Len(keys[k].usedLogs)) = keys[k].usedLogs
        /\ (procs[p].op = "reg" /\ procs[p].pc = "tokens" /\ procs'[p] # procs[p]) =>
               /\ users' = users /\ keys' = keys
               /\ Ended(p, "reg", Ok)]_vars

\* The steps of loginUser up to the issuing of the tokens: the call goes on
\* exactly when the account exists, is active and the password matches; a
\* failing call ends with one of the two errors and writes nothing; the call
\* that goes on stamps the last login of its user, and of no other.
LoginChecksAndStamp ==
  /\ \A p \in Callers, e \in Emails \cup {"c@x.com"}, pw \in Passwords :
        lgFind(p, e, pw, MaxAuthCalls) =>
           LET user == findUserByEmail(users, e)
           IN /\ procs'[p].op = "login" <=>
                    (user.id # 0 /\ user.isActive /\ bcryptCompare(pw, user.password))
              /\ procs'[p] = IdleProc =>
                    outcome'.result \in {ErrCredentials, ErrDeactivated}
              /\ users' = users /\ tokenRows' = tokenRows
  /\ \A p \in Callers :
        (procs[p].op = "login" /\ procs[p].pc = "lastLogin" /\ procs'[p] # procs[p]) =>
           /\ users' = [users EXCEPT ![procs[p].user.id].lastLogin = now]
           /\ tokenRows' = tokenRows

\* The record a successful loginUser of request p stores.
LoginRecord(p) ==
  createRefreshToken(tokenRows, TokenData(procs[p].user, jwtSign(procs[p].user, now), now))

\* C31 as stated: loginUser succeeds exactly when the account exists, is
\* active and the password matches; a failing call leaves the store
\* unchanged; a successful one updates last-login and stores exactly one new
\* active refresh token.
C31_LoginStoresOneToken ==
  [][/\ LoginChecksAndStamp
     /\ \A p \in Callers :
          (procs[p].op = "login" /\ procs[p].pc = "tokens" /\ procs'[p] # procs[p]) =>
             /\ Ended(p, "login", Ok)
             /\ users' = users
             /\ tokenRows' = LoginRecord(p)
             /\ tokenRows'[Len(tokenRows')].isActive]_vars

\* C31, amended: as above, but the successful call stores one new active
\* refresh token or, when the insert fails, none.
C31_LoginStoresAtMostOneToken ==
  [][/\ LoginChecksAndStamp
     /\ \A p \in Callers :
          (procs[p].op = "login" /\ procs[p].pc = "tokens" /\ procs'[p] # procs[p]) =>
             /\ Ended(p, "login", Ok)
             /\ users' = users
             /\ \/ tokenRows' = tokenRows
                \/ tokenRows' = LoginRecord(p) /\ tokenRows'[Len(tokenRows')].isActive]_vars

\* A login succeeded: its user's last login is stamped and one active record
\* of that user is stored.
C31_Witness ==
  /\ outcome.op = "login" /\ outcome.result = Ok
  /\ Len(tokenRows) = 1 /\ tokenRows[1].isActive
  /\ tokenRows[1].userId = outcome.user.id
  /\ users[outcome.user.id].lastLogin # NoDate

\* C32: a refreshTokens call that succeeds returns the user whose id is the
\* userId of the presented token, and the new refresh token carries that id
\* and the same kind of identity as the presented one: a role for an admin,
\* tenantId and accountType for a user.
C32_RefreshPreservesIdentity ==
  [][\A p \in Callers :
        (RefreshEnds(p) /\ outcome'.result = Ok) =>
           LET old == procs[p].token
               new == outcome'.tokens.refreshToken
           IN /\ outcome'.user.id = old.userId
              /\ new.userId = old.userId
              /\ new.role = old.role
              /\ (old.role = "") => (new.tenantId = old.tenantId /\ new.accountType = old.accountType)]_vars

\* C33: whatever the interleaving of the registerUser calls, no two users
\* have the same email, also when the key allows as many registrations as
\* there are users (so that a second call with the same email is refused for
\* its email only).
C33_EmailsUnique ==
  (\A k \in KeyIds : Len(users) <= keys[k].usesAllowed) =>
      \A i, j \in 1..Len(users) : users[i].email = users[j].email => i = j

\* C34: the user a successful refreshTokens returns has no password field.
C34_NoPasswordInRefreshedUser ==
  (outcome.op = "refresh" /\ outcome.result = Ok) =>
      "password" \notin DOMAIN outcome.user

\* C35: once AuthProvider has mounted, isLoading becomes false on every path
\* of checkAuthStatus (no stored token, profile fetched, fetch failed); when
\* checkAuthStatus ends, a user is set only if the profile fetch succeeded,
\* and it is the fetched one; logout ends with no user (isAuthenticated
\* false) whether its API call succeeded or failed.
C35_LoadingEndsAndLogoutClears ==
  /\ client.isLoading ~> ~client.isLoading
  /\ [][/\ (client.isLoading /\ ~client'.isLoading) =>
              /\ client'.user.present <=> client'.check = "ok"
              /\ client'.check = "ok" <=> (client.pc = "profile" /\ client'.user \in ClientUsers)
        /\ (client.pc = "logout" /\ client'.pc # "logout") =>
              /\ ~client'.user.present
              /\ client'.apiToken = ""]_vars

\* The page was opened again, the profile fetch set the user, and a logout
\* has since ended: no user, the stored token still in localStorage.
C35_Witness ==
  /\ client.mounts >= 2 /\ client.check = "ok" /\ ~client.isLoading
  /\ client.pc = "idle" /\ ~isAuthenticated /\ client.accessToken # ""

====
